---------------------------- MODULE Spec2Model ----------------------------
(***************************************************************************)
(* Model of appdirtool (src/src/appdirtool/appdirtool.go): the dependency  *)
(* closure (determineLibsInDirTree, appendLib, getDeps, findLibrary) and   *)
(* the copy-and-patch loop at the end of main.                             *)
(*                                                                         *)
(* Strings are sequences of one-character strings, so that the string and  *)
(* path functions the program calls (strings.Replace, strings.Split,       *)
(* strings.HasPrefix, filepath.Clean, filepath.Dir, filepath.Rel) are      *)
(* computed character by character, as the Go library computes them.       *)
(***************************************************************************)
EXTENDS Naturals, Integers, Sequences, FiniteSets, TLC

(***************************************************************************)
(* Bounds of the model.                                                    *)
(***************************************************************************)
\* Deepest getDeps recursion the model follows.  The closure of the modelled
\* file systems nests at most four calls; the guard only stops a recursion
\* that would otherwise never end.
MaxDepth == 6

\* Longest file contents, over the bytes "a" and "b", PatchFile is run on.
MaxContentLen == 3

\* Longest search and replace patterns, over the same bytes.
MaxPatternLen == 2

\* How often PatchFile is called with the same arguments.
MaxCalls == 2

(***************************************************************************)
(* strings and path/filepath                                               *)
(***************************************************************************)
EmptyStr == << >>
Slash == << "/" >>
Dot == << "." >>
DotDot == << ".", "." >>

\* strings.HasPrefix(s, prefix)
HasPrefix(s, prefix) ==
    /\ Len(prefix) <= Len(s)
    /\ SubSeq(s, 1, Len(prefix)) = prefix

\* Index of the first occurrence of sub in s at or after position from,
\* 0 when there is none (strings.Index).
RECURSIVE IndexFrom(_, _, _)
IndexFrom(s, sub, from) ==
    IF from + Len(sub) - 1 > Len(s) THEN 0
    ELSE IF SubSeq(s, from, from + Len(sub) - 1) = sub THEN from
    ELSE IndexFrom(s, sub, from + 1)

\* strings.Contains(s, sub)
StrContains(s, sub) == IndexFrom(s, sub, 1) # 0

\* strings.Replace(s, old, new, -1) for a non-empty old: every
\* non-overlapping occurrence, left to right.
RECURSIVE ReplaceAll(_, _, _)
ReplaceAll(s, old, new) ==
    LET i == IndexFrom(s, old, 1)
    IN  IF i = 0 THEN s
        ELSE SubSeq(s, 1, i - 1) \o new
             \o ReplaceAll(SubSeq(s, i + Len(old), Len(s)), old, new)

\* strings.Split(s, sep) for a non-empty sep: always at least one field.
RECURSIVE Split(_, _)
Split(s, sep) ==
    LET i == IndexFrom(s, sep, 1)
    IN  IF i = 0 THEN << s >>
        ELSE << SubSeq(s, 1, i - 1) >> \o Split(SubSeq(s, i + Len(sep), Len(s)), sep)

\* strings.Join(elems, sep)
RECURSIVE Join(_, _)
Join(elems, sep) ==
    IF elems = << >> THEN EmptyStr
    ELSE IF Len(elems) = 1 THEN elems[1]
    ELSE elems[1] \o sep \o Join(Tail(elems), sep)

IsSpace(c) == c \in {" ", "\n", "\t", "\r"}

\* strings.TrimSpace(s)
RECURSIVE TrimLeft(_)
TrimLeft(s) ==
    IF s # << >> /\ IsSpace(Head(s)) THEN TrimLeft(Tail(s)) ELSE s

RECURSIVE TrimRight(_)
TrimRight(s) ==
    IF s # << >> /\ IsSpace(s[Len(s)]) THEN TrimRight(SubSeq(s, 1, Len(s) - 1))
    ELSE s

TrimSpace(s) == TrimRight(TrimLeft(s))

IsAbs(p) == p # << >> /\ p[1] = "/"

\* The element stack of filepath.Clean: "" and "." elements are dropped,
\* ".." removes the element before it, is dropped at the root of a rooted
\* path and is kept at the front of a relative one.
RECURSIVE CleanElems(_, _, _)
CleanElems(elems, out, rooted) ==
    IF elems = << >> THEN out
    ELSE LET e == Head(elems)
             rest == Tail(elems)
         IN  IF e = EmptyStr \/ e = Dot THEN CleanElems(rest, out, rooted)
             ELSE IF e = DotDot
                  THEN IF out # << >> /\ out[Len(out)] # DotDot
                       THEN CleanElems(rest, SubSeq(out, 1, Len(out) - 1), rooted)
                       ELSE IF rooted THEN CleanElems(rest, out, rooted)
                            ELSE CleanElems(rest, Append(out, e), rooted)
                  ELSE CleanElems(rest, Append(out, e), rooted)

\* The elements of the cleaned path.
PathElems(p) == CleanElems(Split(p, Slash), << >>, IsAbs(p))

\* filepath.Clean(p)
Clean(p) ==
    LET body == Join(PathElems(p), Slash)
    IN  IF IsAbs(p) THEN Slash \o body
        ELSE IF body = EmptyStr THEN Dot ELSE body

\* Position of the last "/" of p, 0 when there is none.
RECURSIVE LastSlash(_, _)
LastSlash(p, i) ==
    IF i = 0 THEN 0 ELSE IF p[i] = "/" THEN i ELSE LastSlash(p, i - 1)

\* filepath.Dir(p): everything up to the last separator, cleaned.
Dir(p) == Clean(SubSeq(p, 1, LastSlash(p, Len(p))))

\* Length of the longest common prefix of two element sequences.
RECURSIVE CommonLen(_, _)
CommonLen(a, b) ==
    IF a = << >> \/ b = << >> \/ Head(a) # Head(b) THEN 0
    ELSE 1 + CommonLen(Tail(a), Tail(b))

Repeat(e, n) == [i \in 1..n |-> e]

\* filepath.Rel(basepath, targpath): the path and whether Rel reports the
\* error "can't make targ relative to base" (one path is rooted and the
\* other is not, or base keeps a leading ".."), in which case the path is "".
Rel(basepath, targpath) ==
    LET b == PathElems(basepath)
        t == PathElems(targpath)
        n == CommonLen(b, t)
        up == SubSeq(b, n + 1, Len(b))
        down == SubSeq(t, n + 1, Len(t))
    IN  IF IsAbs(basepath) # IsAbs(targpath) \/ (up # << >> /\ Head(up) = DotDot)
        THEN [err |-> TRUE, path |-> EmptyStr]
        ELSE IF up = << >> /\ down = << >>
             THEN [err |-> FALSE, path |-> Dot]
             ELSE [err |-> FALSE,
                   path |-> Join(Repeat(DotDot, Len(up)) \o down, Slash)]

(***************************************************************************)
(* String constants of the program.                                        *)
(***************************************************************************)
\* "$ORIGIN"
OriginToken ==
    << "$", "O", "R", "I", "G", "I", "N" >>
\* "$ORIGIN/"
OriginPrefix ==
    << "$", "O", "R", "I", "G", "I", "N", "/" >>
\* "$"
Dollar ==
    << "$" >>
\* ":"
Colon ==
    << ":" >>
\* ".so"
SoFragment ==
    << ".", "s", "o" >>
\* "did not find library "
DidNotFindLibrary ==
    << "d", "i", "d", " ", "n", "o", "t", " ", "f", "i", "n", "d", " ", "l", "i", "b", "r", "a", "r", "y", " " >>
\* ".patched"
PatchedSuffix ==
    << ".", "p", "a", "t", "c", "h", "e", "d" >>
\* "/usr"
Usr ==
    << "/", "u", "s", "r" >>
\* "/xxx"
Xxx ==
    << "/", "x", "x", "x" >>
\* "././"
DotSlashDotSlash ==
    << ".", "/", ".", "/" >>
\* "gconv"
GconvPrefix ==
    << "g", "c", "o", "n", "v" >>
\* "/usr/lib64"
Loc_usr_lib64 ==
    << "/", "u", "s", "r", "/", "l", "i", "b", "6", "4" >>
\* "/lib64"
Loc_lib64 ==
    << "/", "l", "i", "b", "6", "4" >>
\* "/usr/lib"
Loc_usr_lib ==
    << "/", "u", "s", "r", "/", "l", "i", "b" >>
\* "/lib"
Loc_lib ==
    << "/", "l", "i", "b" >>
\* "/usr/lib/x86_64-linux-gnu/libfakeroot"
Loc_libfakeroot ==
    << "/", "u", "s", "r", "/", "l", "i", "b", "/", "x", "8", "6", "_", "6", "4", "-", "l", "i", "n", "u", "x", "-", "g", "n", "u", "/", "l", "i", "b", "f", "a", "k", "e", "r", "o", "o", "t" >>
\* "/usr/local/lib"
Loc_usr_local_lib ==
    << "/", "u", "s", "r", "/", "l", "o", "c", "a", "l", "/", "l", "i", "b" >>
\* "/usr/local/lib/x86_64-linux-gnu"
Loc_usr_local_lib_gnu ==
    << "/", "u", "s", "r", "/", "l", "o", "c", "a", "l", "/", "l", "i", "b", "/", "x", "8", "6", "_", "6", "4", "-", "l", "i", "n", "u", "x", "-", "g", "n", "u" >>
\* "/lib/x86_64-linux-gnu"
Loc_lib_gnu ==
    << "/", "l", "i", "b", "/", "x", "8", "6", "_", "6", "4", "-", "l", "i", "n", "u", "x", "-", "g", "n", "u" >>
\* "/usr/lib/x86_64-linux-gnu"
Loc_usr_lib_gnu ==
    << "/", "u", "s", "r", "/", "l", "i", "b", "/", "x", "8", "6", "_", "6", "4", "-", "l", "i", "n", "u", "x", "-", "g", "n", "u" >>
\* "/lib32"
Loc_lib32 ==
    << "/", "l", "i", "b", "3", "2" >>
\* "/usr/lib32"
Loc_usr_lib32 ==
    << "/", "u", "s", "r", "/", "l", "i", "b", "3", "2" >>
\* "/usr/libexec/gstreamer-1.0/gst-plugin-scanner"
ScannerClearLinux ==
    << "/", "u", "s", "r", "/", "l", "i", "b", "e", "x", "e", "c", "/", "g", "s", "t", "r", "e", "a", "m", "e", "r", "-", "1", ".", "0", "/", "g", "s", "t", "-", "p", "l", "u", "g", "i", "n", "-", "s", "c", "a", "n", "n", "e", "r" >>
\* "/usr/lib/x86_64-linux-gnu/gstreamer1.0/gstreamer-1.0/gst-plugin-scanner"
ScannerUbuntu ==
    << "/", "u", "s", "r", "/", "l", "i", "b", "/", "x", "8", "6", "_", "6", "4", "-", "l", "i", "n", "u", "x", "-", "g", "n", "u", "/", "g", "s", "t", "r", "e", "a", "m", "e", "r", "1", ".", "0", "/", "g", "s", "t", "r", "e", "a", "m", "e", "r", "-", "1", ".", "0", "/", "g", "s", "t", "-", "p", "l", "u", "g", "i", "n", "-", "s", "c", "a", "n", "n", "e", "r" >>

\* The directories findLibrary always registers, in its order.
DefaultLocs ==
    << Loc_usr_lib64, Loc_lib64, Loc_usr_lib, Loc_lib, Loc_libfakeroot,
       Loc_usr_local_lib, Loc_usr_local_lib_gnu, Loc_lib_gnu, Loc_usr_lib_gnu,
       Loc_lib32, Loc_usr_lib32 >>

\* The places main looks for gst-plugin-scanner, in its order.
GstPluginScannerCandidates == << ScannerClearLinux, ScannerUbuntu >>

(***************************************************************************)
(* The inputs of a run: the AppDir, the host file system and the           *)
(* environment.  Every file is a record [kind, needed, rpath]: kind "elf"  *)
(* is a well-formed dynamic ELF object, "text" is a file without the ELF   *)
(* magic (patchelf and debug/elf both refuse it), "corrupt" carries the    *)
(* ELF magic and is accepted by patchelf but refused by elf.Open; needed   *)
(* is the DT_NEEDED list and rpath the search path patchelf prints.        *)
(***************************************************************************)
\* "/app"
AppDirPath ==
    << "/", "a", "p", "p" >>
\* "/app/usr/bin/app"
MainExecutable ==
    << "/", "a", "p", "p", "/", "u", "s", "r", "/", "b", "i", "n", "/", "a", "p", "p" >>
\* "/lib64/ld-linux-x86-64.so.2"
Interpreter ==
    << "/", "l", "i", "b", "6", "4", "/", "l", "d", "-", "l", "i", "n", "u", "x", "-", "x", "8", "6", "-", "6", "4", ".", "s", "o", ".", "2" >>
\* "/app/lib64/ld-linux-x86-64.so.2"
BundledInterpreter ==
    << "/", "a", "p", "p", "/", "l", "i", "b", "6", "4", "/", "l", "d", "-", "l", "i", "n", "u", "x", "-", "x", "8", "6", "-", "6", "4", ".", "s", "o", ".", "2" >>
\* "/app/usr/lib/libp.so"
BundledLibP ==
    << "/", "a", "p", "p", "/", "u", "s", "r", "/", "l", "i", "b", "/", "l", "i", "b", "p", ".", "s", "o" >>
\* "/app/usr/lib/notes.so.txt"
OddFile ==
    << "/", "a", "p", "p", "/", "u", "s", "r", "/", "l", "i", "b", "/", "n", "o", "t", "e", "s", ".", "s", "o", ".", "t", "x", "t" >>
\* "/usr/lib/libx.so"
HostLibX ==
    << "/", "u", "s", "r", "/", "l", "i", "b", "/", "l", "i", "b", "x", ".", "s", "o" >>
\* "/usr/lib/liby.so"
HostLibY ==
    << "/", "u", "s", "r", "/", "l", "i", "b", "/", "l", "i", "b", "y", ".", "s", "o" >>
\* "/usr/lib/liba.so"
HostLibA ==
    << "/", "u", "s", "r", "/", "l", "i", "b", "/", "l", "i", "b", "a", ".", "s", "o" >>
\* "/usr/lib/libb.so"
HostLibB ==
    << "/", "u", "s", "r", "/", "l", "i", "b", "/", "l", "i", "b", "b", ".", "s", "o" >>
\* "/opt/vendor/lib"
VendorDir ==
    << "/", "o", "p", "t", "/", "v", "e", "n", "d", "o", "r", "/", "l", "i", "b" >>
\* "/opt/vendor/lib/libx.so"
VendorLibX ==
    << "/", "o", "p", "t", "/", "v", "e", "n", "d", "o", "r", "/", "l", "i", "b", "/", "l", "i", "b", "x", ".", "s", "o" >>
\* "/opt/env"
EnvDir ==
    << "/", "o", "p", "t", "/", "e", "n", "v" >>
\* "/opt/env/libx.so"
EnvLibX ==
    << "/", "o", "p", "t", "/", "e", "n", "v", "/", "l", "i", "b", "x", ".", "s", "o" >>
\* "/usr/lib/gconv/utf.so"
HostGconvModule ==
    << "/", "u", "s", "r", "/", "l", "i", "b", "/", "g", "c", "o", "n", "v", "/", "u", "t", "f", ".", "s", "o" >>
\* "/app/usr/lib/gconv/utf.so"
BundledGconvModule ==
    << "/", "a", "p", "p", "/", "u", "s", "r", "/", "l", "i", "b", "/", "g", "c", "o", "n", "v", "/", "u", "t", "f", ".", "s", "o" >>
\* "libx.so"
NameLibX ==
    << "l", "i", "b", "x", ".", "s", "o" >>
\* "liby.so"
NameLibY ==
    << "l", "i", "b", "y", ".", "s", "o" >>
\* "libz.so"
NameLibZ ==
    << "l", "i", "b", "z", ".", "s", "o" >>
\* "liba.so"
NameLibA ==
    << "l", "i", "b", "a", ".", "s", "o" >>
\* "libb.so"
NameLibB ==
    << "l", "i", "b", "b", ".", "s", "o" >>
\* "/apps/lib"
SiblingDir ==
    << "/", "a", "p", "p", "s", "/", "l", "i", "b" >>
\* "/apps/lib/libx.so"
SiblingLibX ==
    << "/", "a", "p", "p", "s", "/", "l", "i", "b", "/", "l", "i", "b", "x", ".", "s", "o" >>
\* "/opt/work"
Cwd ==
    << "/", "o", "p", "t", "/", "w", "o", "r", "k" >>
\* "../env"
RelativeEnvDir ==
    << ".", ".", "/", "e", "n", "v" >>
\* "/opt/env/libe.so"
EnvLibE ==
    << "/", "o", "p", "t", "/", "e", "n", "v", "/", "l", "i", "b", "e", ".", "s", "o" >>
\* "/opt/vendor/lib/libv.so"
VendorLibV ==
    << "/", "o", "p", "t", "/", "v", "e", "n", "d", "o", "r", "/", "l", "i", "b", "/", "l", "i", "b", "v", ".", "s", "o" >>
\* "/usr/lib/libw.so"
HostLibW ==
    << "/", "u", "s", "r", "/", "l", "i", "b", "/", "l", "i", "b", "w", ".", "s", "o" >>
\* "libe.so"
NameLibE ==
    << "l", "i", "b", "e", ".", "s", "o" >>
\* "libv.so"
NameLibV ==
    << "l", "i", "b", "v", ".", "s", "o" >>
\* "libw.so"
NameLibW ==
    << "l", "i", "b", "w", ".", "s", "o" >>
\* "$ORIGIN/../lib"
RpathOriginLib ==
    << "$", "O", "R", "I", "G", "I", "N", "/", ".", ".", "/", "l", "i", "b" >>
\* "$ORIGIN"
RpathOrigin ==
    << "$", "O", "R", "I", "G", "I", "N" >>

File(kind, needed, rpath) == [kind |-> kind, needed |-> needed, rpath |-> rpath]

\* The choices Init draws for the main executable's DT_NEEDED list.
AppNeededChoices ==
    { << NameLibX >>,
      << NameLibY, NameLibX >>,
      << NameLibA >>,
      << NameLibZ, NameLibX >> }

\* The choices Init draws for the main executable's search path.
AppRpathChoices == { EmptyStr, RpathOriginLib, VendorDir }

\* The choices Init draws for LD_LIBRARY_PATH.
LdLibraryPathChoices == { EmptyStr, EnvDir }

OddFileChoices == { "none", "text", "corrupt" }

GconvChoices == { "none", "host", "bundle" }

\* Files every modelled host has: the AppDir with its main executable and
\* one library, and the host libraries.  liba.so and libb.so need each other.
BaseFiles(appNeeded, appRpath) ==
    (MainExecutable :> File("elf", appNeeded, appRpath))
    @@ (BundledLibP :> File("elf", << NameLibX >>, EmptyStr))
    @@ (HostLibX :> File("elf", << >>, EmptyStr))
    @@ (HostLibY :> File("elf", << >>, VendorDir))
    @@ (HostLibA :> File("elf", << NameLibB >>, EmptyStr))
    @@ (HostLibB :> File("elf", << NameLibA >>, EmptyStr))
    @@ (VendorLibX :> File("elf", << >>, RpathOrigin))
    @@ (EnvLibX :> File("elf", << >>, EmptyStr))

EmptyFs == [p \in {} |-> File("elf", << >>, EmptyStr)]

OddFiles(odd) ==
    IF odd = "none" THEN EmptyFs ELSE (OddFile :> File(odd, << >>, EmptyStr))

GconvFiles(gconv) ==
    IF gconv = "host" THEN (HostGconvModule :> File("elf", << NameLibX >>, EmptyStr))
    ELSE IF gconv = "bundle"
         THEN (BundledGconvModule :> File("elf", << NameLibX >>, EmptyStr))
         ELSE EmptyFs

InterpreterFiles(present) ==
    IF present THEN (BundledInterpreter :> File("elf", << >>, EmptyStr)) ELSE EmptyFs

ScannerFiles(present) ==
    IF present THEN (ScannerClearLinux :> File("elf", << NameLibA >>, EmptyStr))
    ELSE EmptyFs

HostFs(appNeeded, appRpath, odd, gconv, interp, scanner) ==
    BaseFiles(appNeeded, appRpath) @@ OddFiles(odd) @@ GconvFiles(gconv)
    @@ InterpreterFiles(interp) @@ ScannerFiles(scanner)

\* A host on which a run reaches the copy loop: the AppDir holds the
\* interpreter and /usr/lib holds a gconv directory.
PlainHost(appNeeded, appRpath) ==
    HostFs(appNeeded, appRpath, "none", "host", TRUE, FALSE)

\* Further hosts and environments Init draws:
\*  - the application's rpath is /apps/lib, a directory beside the AppDir
\*    whose name starts with the AppDir's;
\*  - libe.so lies in /opt/env only, which LD_LIBRARY_PATH names absolutely
\*    or relative to the working directory /opt/work;
\*  - the application needs libv.so, which lies in /opt/vendor/lib only, and
\*    libp.so needs liby.so, whose rpath is /opt/vendor/lib;
\*  - the application needs libw.so, which needs libz.so, which is nowhere;
\*  - the application needs libx.so and then liby.so, whose rpath names
\*    /opt/vendor/lib, which holds a libx.so too, and libp.so needs libx.so.
FurtherHosts ==
    { [fs |-> (SiblingLibX :> File("elf", << >>, EmptyStr))
              @@ PlainHost(<< NameLibY, NameLibX >>, SiblingDir),
       ldLibraryPath |-> EmptyStr],
      [fs |-> (EnvLibE :> File("elf", << >>, EmptyStr))
              @@ PlainHost(<< NameLibE >>, EmptyStr),
       ldLibraryPath |-> EnvDir],
      [fs |-> (EnvLibE :> File("elf", << >>, EmptyStr))
              @@ PlainHost(<< NameLibE >>, EmptyStr),
       ldLibraryPath |-> RelativeEnvDir],
      [fs |-> (BundledLibP :> File("elf", << NameLibY >>, EmptyStr))
              @@ (VendorLibV :> File("elf", << >>, EmptyStr))
              @@ PlainHost(<< NameLibV >>, EmptyStr),
       ldLibraryPath |-> EmptyStr],
      [fs |-> (HostLibW :> File("elf", << NameLibZ >>, EmptyStr))
              @@ PlainHost(<< NameLibW, NameLibX >>, EmptyStr),
       ldLibraryPath |-> EmptyStr],
      [fs |-> PlainHost(<< NameLibX, NameLibY >>, EmptyStr),
       ldLibraryPath |-> EmptyStr] }


(***************************************************************************)
(* package helpers (internal/helpers of the repository)                    *)
(***************************************************************************)
\* helpers.SliceContains(slice, x)
SliceContains(slice, x) == \E i \in 1..Len(slice) : slice[i] = x

\* helpers.AppendIfMissing(slice, x)
AppendIfMissing(slice, x) ==
    IF SliceContains(slice, x) THEN slice ELSE Append(slice, x)

\* A file system is a function from the cleaned paths of its regular files
\* to File records; a directory exists when a file lies below it.
IsFile(f, p) == p \in DOMAIN f

IsDirectory(f, p) ==
    \E q \in DOMAIN f : HasPrefix(q, IF p = Slash THEN Slash ELSE p \o Slash)

\* The file a path names for the operating system, which resolves "//", "."
\* and ".." and reads a relative path from the working directory.
Resolve(path) == Clean(IF IsAbs(path) THEN path ELSE Cwd \o Slash \o path)

\* helpers.Exists(path)
Exists(f, path) == IsFile(f, Resolve(path)) \/ IsDirectory(f, Resolve(path))

\* helpers.CheckMagicAtOffset(f, "454c46", 1): the file starts with \x7fELF.
CheckMagicELF(f, p) == f[p].kind \in {"elf", "corrupt"}

(***************************************************************************)
(* Byte order of strings, which filepath.Walk and ioutil.ReadDir sort by.  *)
(***************************************************************************)
Alphabet ==
    << "$", "-", ".", "/", "0", "1", "2", "3", "4", "5", "6", "7", "8", "9",
       ":", "A", "B", "C", "D", "E", "F", "G", "H", "I", "J", "K", "L", "M",
       "N", "O", "P", "Q", "R", "S", "T", "U", "V", "W", "X", "Y", "Z", "_",
       "a", "b", "c", "d", "e", "f", "g", "h", "i", "j", "k", "l", "m", "n",
       "o", "p", "q", "r", "s", "t", "u", "v", "w", "x", "y", "z" >>

Rank(c) == CHOOSE i \in 1..Len(Alphabet) : Alphabet[i] = c

\* a < b, byte by byte.
RECURSIVE StrLess(_, _)
StrLess(a, b) ==
    IF b = << >> THEN FALSE
    ELSE IF a = << >> THEN TRUE
    ELSE IF Head(a) = Head(b) THEN StrLess(Tail(a), Tail(b))
    ELSE Rank(Head(a)) < Rank(Head(b))

\* Order of a walk: element by element, each directory's names sorted.
RECURSIVE ElemsLess(_, _)
ElemsLess(a, b) ==
    IF b = << >> THEN FALSE
    ELSE IF a = << >> THEN TRUE
    ELSE IF Head(a) = Head(b) THEN ElemsLess(Tail(a), Tail(b))
    ELSE StrLess(Head(a), Head(b))

PathLess(p, q) == ElemsLess(PathElems(p), PathElems(q))

\* The paths of S in walk order.
RECURSIVE SortPaths(_)
SortPaths(S) ==
    IF S = {} THEN << >>
    ELSE LET m == CHOOSE p \in S : \A q \in S \ {p} : PathLess(p, q)
         IN  << m >> \o SortPaths(S \ {m})

\* The regular files filepath.Walk(root) visits, in its order.
Walk(f, root) ==
    SortPaths({ p \in DOMAIN f : p = root \/ HasPrefix(p, root \o Slash) })

\* helpers.FilesWithPrefixInDirectory(directory, prefix): the entries of
\* directory whose name starts with prefix, as directory + "/" + name.
FilesWithPrefixInDirectory(f, directory, prefix) ==
    LET dir == Resolve(directory)
        below == { q \in DOMAIN f : HasPrefix(q, dir \o Slash) }
        names == { Split(SubSeq(q, Len(dir) + 2, Len(q)), Slash)[1] : q \in below }
    IN  SortPaths({ directory \o Slash \o n : n \in { m \in names : HasPrefix(m, prefix) } })

(***************************************************************************)
(* The functions of appdirtool.go                                          *)
(***************************************************************************)
\* `patchelf --print-rpath path` through CombinedOutput: the search path and
\* a newline, or a failure for a file that is missing or not ELF (the
\* callers stop on the error before they look at the output).
PatchelfPrintRpath(f, path) ==
    IF IsFile(f, Resolve(path)) /\ f[Resolve(path)].kind # "text"
    THEN [err |-> FALSE, out |-> f[Resolve(path)].rpath \o << "\n" >>]
    ELSE [err |-> TRUE, out |-> EmptyStr]

\* readRpaths(path)
readRpaths(f, path) ==
    LET res == PatchelfPrintRpath(f, path)
        rpathStringInELF == TrimSpace(res.out)
    IN  IF rpathStringInELF = EmptyStr
        THEN [err |-> res.err, rpaths |-> << >>]
        ELSE [err |-> res.err, rpaths |-> Split(rpathStringInELF, Colon)]

\* Mutant of appendRpaths: a hint is put in front of libraryLocations.
RECURSIVE appendRpathsInFront(_, _, _)
appendRpathsInFront(locations, rpaths, path) ==
    IF rpaths = << >> THEN locations
    ELSE LET rpath == Clean(ReplaceAll(Head(rpaths), OriginToken, Dir(path)))
         IN  appendRpathsInFront(
                 IF ~SliceContains(locations, rpath) /\ rpath # EmptyStr
                 THEN << Clean(rpath) >> \o locations
                 ELSE locations,
                 Tail(rpaths), path)

\* The loop of appendLib over the pre-existing rpaths.
RECURSIVE appendRpaths(_, _, _)
appendRpaths(locations, rpaths, path) ==
    IF rpaths = << >> THEN locations
    ELSE LET rpath == Clean(ReplaceAll(Head(rpaths), OriginToken, Dir(path)))
         IN  appendRpaths(
                 IF ~SliceContains(locations, rpath) /\ rpath # EmptyStr
                 THEN AppendIfMissing(locations, Clean(rpath))
                 ELSE locations,
                 Tail(rpaths), path)

\* Mutant of appendLib: the path is not recorded in allLibs.
appendLibForgetsPath(f, locations, libs, path) ==
    LET r == readRpaths(f, path)
    IN  IF r.err
        THEN [exit |-> TRUE, libraryLocations |-> locations, allLibs |-> libs]
        ELSE [exit |-> FALSE,
              libraryLocations |->
                  AppendIfMissing(appendRpaths(locations, r.rpaths, path),
                                  Clean(Dir(path))),
              allLibs |-> libs]

\* Mutant of appendLib: the path is appended to allLibs with append().
appendLibNoDedup(f, locations, libs, path) ==
    LET r == readRpaths(f, path)
    IN  IF r.err
        THEN [exit |-> TRUE, libraryLocations |-> locations, allLibs |-> libs]
        ELSE [exit |-> FALSE,
              libraryLocations |->
                  AppendIfMissing(appendRpaths(locations, r.rpaths, path),
                                  Clean(Dir(path))),
              allLibs |-> Append(libs, path)]

\* Mutant of appendLib: the directory of path is not registered.
appendLibForgetsDirectory(f, locations, libs, path) ==
    LET r == readRpaths(f, path)
    IN  IF r.err
        THEN [exit |-> TRUE, libraryLocations |-> locations, allLibs |-> libs]
        ELSE [exit |-> FALSE,
              libraryLocations |-> appendRpaths(locations, r.rpaths, path),
              allLibs |-> AppendIfMissing(libs, path)]

\* appendLib(path) on libraryLocations = locations and allLibs = libs.
\* exit: the call ended the run with os.Exit(1).
appendLib(f, locations, libs, path) ==
    LET r == readRpaths(f, path)
    IN  IF r.err
        THEN [exit |-> TRUE, libraryLocations |-> locations, allLibs |-> libs]
        ELSE [exit |-> FALSE,
              libraryLocations |->
                  AppendIfMissing(appendRpaths(locations, r.rpaths, path),
                                  Clean(Dir(path))),
              allLibs |-> AppendIfMissing(libs, path)]

\* findAllExecutablesAndLibraries(directory): the walk callback, folded over
\* the files of the walk.
RECURSIVE collectELFs(_, _, _)
collectELFs(f, paths, acc) ==
    IF paths = << >> THEN acc
    ELSE LET path == Head(paths)
             byName == IF StrContains(path, SoFragment)
                       THEN AppendIfMissing(acc, path) ELSE acc
             byMagic == IF CheckMagicELF(f, path)
                        THEN AppendIfMissing(byName, path) ELSE byName
         IN  collectELFs(f, Tail(paths), byMagic)

findAllExecutablesAndLibraries(f, directory) ==
    collectELFs(f, Walk(f, directory), << >>)

RECURSIVE appendAll(_, _)
appendAll(locations, dirs) ==
    IF dirs = << >> THEN locations
    ELSE appendAll(AppendIfMissing(locations, Clean(Head(dirs))), Tail(dirs))

\* The non-empty fields of LD_LIBRARY_PATH.
RECURSIVE nonEmpty(_)
nonEmpty(fields) ==
    IF fields = << >> THEN << >>
    ELSE IF Head(fields) # EmptyStr THEN << Head(fields) >> \o nonEmpty(Tail(fields))
    ELSE nonEmpty(Tail(fields))

\* The directories findLibrary registers before it searches.
registerLocations(locations, ldpstr) ==
    appendAll(appendAll(locations, DefaultLocs), nonEmpty(Split(ldpstr, Colon)))

\* searchLocationsFromTheBack stands for searchLocations in a findLibrary
\* whose loop lets a later location override an earlier one.
RECURSIVE searchLocationsFromTheBack(_, _, _)
searchLocationsFromTheBack(f, locations, filename) ==
    IF locations = << >>
    THEN [err |-> TRUE, path |-> EmptyStr, msg |-> DidNotFindLibrary \o filename]
    ELSE LET last == locations[Len(locations)]
         IN  IF Exists(f, last \o Slash \o filename)
             THEN [err |-> FALSE, path |-> last \o Slash \o filename,
                   msg |-> EmptyStr]
             ELSE searchLocationsFromTheBack(
                      f, SubSeq(locations, 1, Len(locations) - 1), filename)

\* The search loop of findLibrary: the first location holding filename.
RECURSIVE searchLocations(_, _, _)
searchLocations(f, locations, filename) ==
    IF locations = << >>
    THEN [err |-> TRUE, path |-> EmptyStr, msg |-> DidNotFindLibrary \o filename]
    ELSE IF Exists(f, Head(locations) \o Slash \o filename)
         THEN [err |-> FALSE, path |-> Head(locations) \o Slash \o filename,
               msg |-> EmptyStr]
         ELSE searchLocations(f, Tail(locations), filename)

\* findLibrary(filename) on libraryLocations = locations.
findLibrary(f, ldpstr, locations, filename) ==
    LET registered == registerLocations(locations, ldpstr)
        found == searchLocations(f, registered, filename)
    IN  [libraryLocations |-> registered, path |-> found.path, err |-> found.err,
         msg |-> found.msg]

\* The loop of findWithPrefixInLibraryLocations: the matches of the first
\* location that has any.
RECURSIVE findWithPrefixInLibraryLocations(_, _, _)
findWithPrefixInLibraryLocations(f, locations, prefix) ==
    IF locations = << >> THEN [found |-> << >>, err |-> TRUE]
    ELSE LET found == FilesWithPrefixInDirectory(f, Head(locations), prefix)
         IN  IF Len(found) > 0 THEN [found |-> found, err |-> FALSE]
             ELSE findWithPrefixInLibraryLocations(f, Tail(locations), prefix)

\* The loop of main that maps libraryLocations into the AppDir.
RECURSIVE inAppDir(_)
inAppDir(locations) ==
    IF locations = << >> THEN << >>
    ELSE << IF ~HasPrefix(Head(locations), AppDirPath)
            THEN AppDirPath \o Head(locations)
            ELSE Head(locations) >> \o inAppDir(Tail(locations))

\* The loop of main that computes the rpath entries of lib.
RECURSIVE newRpathStrings(_, _)
newRpathStrings(lib, locationsInAppDir) ==
    IF locationsInAppDir = << >> THEN << >>
    ELSE << OriginPrefix \o Clean(Rel(Dir(AppDirPath \o lib), Head(locationsInAppDir)).path) >>
         \o newRpathStrings(lib, Tail(locationsInAppDir))

newRpathStringForElf(lib, locationsInAppDir) ==
    Join(newRpathStrings(lib, locationsInAppDir), Colon)


(***************************************************************************)
(* The state of a run                                                      *)
(***************************************************************************)
VARIABLES
    fs,                       \* the file system: host and AppDir
    ldLibraryPath,            \* the value of LD_LIBRARY_PATH
    allLibs,                  \* var allLibs
    libraryLocations,         \* var libraryLocations
    pc,                       \* where main, or determineLibsInDirTree, stands
    returnTo,                 \* where main continues after determineLibsInDirTree
    allelfs,                  \* allelfs of the running determineLibsInDirTree
    idx,                      \* position of its current loop in allelfs
    stack,                    \* the running getDeps calls, innermost last
    libraryLocationsInAppDir, \* var libraryLocationsInAppDir of main
    k,                        \* position of the copy loop in allLibs
    status,                   \* "running", "done", "exit" (os.Exit(1)), "panic"
    cause,                    \* the call that ended the run
    hints,                    \* directories appendLib took from rpaths
    lastFind,                 \* the latest findLibrary call of getDeps
    unresolved,               \* some findLibrary call found nothing
    edges,                    \* <<binary, library>>: getDeps resolved a need
    copied,                   \* files helpers.CopyFile created in the AppDir
    patched,                  \* files patchelf --set-rpath rewrote
    closures,                 \* allLibs at each return of determineLibsInDirTree
    failedPhase,              \* the latest closure with a failed findLibrary, or 0
    named,                    \* the file the message of a failed copy or patch names
    parsed,                   \* how often getDeps read each file's imported libraries
    lastReturn,               \* the latest return of a getDeps call
    resolutions,              \* the findLibrary calls that found the name, in order
    disk,                     \* PatchFile: the contents of the files it touches
    patchArgs,                \* PatchFile: its arguments path, search, replace
    patchPc,                  \* PatchFile: the statement the call stands at
    patchPath,                \* PatchFile: path after strings.TrimSpace
    input,                    \* PatchFile: var input
    output,                   \* PatchFile: var output
    patchErr,                 \* PatchFile: the returned error, "none" while running
    calls,                    \* PatchFile: calls made so far
    before,                   \* PatchFile: disk when the running call started
    applied                   \* PatchFile: the file after each call that renamed

\* The variables of a run of main.
runVars ==
    << fs, ldLibraryPath, allLibs, libraryLocations, pc, returnTo, allelfs,
       idx, stack, libraryLocationsInAppDir, k, status, cause, hints,
       lastFind, unresolved, edges, copied, patched, closures, failedPhase,
       named, parsed, lastReturn, resolutions >>

\* The variables of a PatchFile call.
patchVars ==
    << disk, patchArgs, patchPc, patchPath, input, output, patchErr, calls, before,
       applied >>

vars == << runVars, patchVars >>

\* lastFind before the first findLibrary call.
NoFind ==
    [name |-> EmptyStr, path |-> EmptyStr, err |-> FALSE, msg |-> EmptyStr,
     hints |-> {}, locations |-> << >>, afterFailure |-> FALSE]

\* parsed before any getDeps call.
NoneParsed == [p \in {} |-> 0]

\* lastReturn before the first getDeps call has returned.
NoReturn == [path |-> EmptyStr, err |-> FALSE, failed |-> FALSE]

\* main has not started.
RunStart ==
    /\ allLibs = << >>
    /\ libraryLocations = << >>
    /\ pc = "main_appdir"
    /\ returnTo = "main_appdir"
    /\ allelfs = << >>
    /\ idx = 1
    /\ stack = << >>
    /\ libraryLocationsInAppDir = << >>
    /\ k = 1
    /\ status = "running"
    /\ cause = "none"
    /\ hints = {}
    /\ lastFind = NoFind
    /\ unresolved = FALSE
    /\ edges = {}
    /\ copied = {}
    /\ patched = {}
    /\ closures = << >>
    /\ failedPhase = 0
    /\ named = EmptyStr
    /\ parsed = NoneParsed
    /\ lastReturn = NoReturn
    /\ resolutions = << >>

\* disk without files.
NoFiles == [p \in {} |-> EmptyStr]

\* PatchFile has not been called.
PatchStart ==
    /\ patchPc = "idle"
    /\ patchPath = EmptyStr
    /\ input = EmptyStr
    /\ output = EmptyStr
    /\ patchErr = "none"
    /\ calls = 0
    /\ before = NoFiles
    /\ applied = << >>

Init ==
    /\ \/ /\ \E appNeeded \in AppNeededChoices, appRpath \in AppRpathChoices,
                odd \in OddFileChoices, gconv \in GconvChoices,
                interp \in BOOLEAN, scanner \in BOOLEAN :
                fs = HostFs(appNeeded, appRpath, odd, gconv, interp, scanner)
          /\ ldLibraryPath \in LdLibraryPathChoices
       \/ \E host \in FurtherHosts :
             /\ fs = host.fs
             /\ ldLibraryPath = host.ldLibraryPath
    /\ RunStart
    /\ disk = NoFiles
    /\ patchArgs = [path |-> EmptyStr, search |-> EmptyStr, replace |-> EmptyStr]
    /\ PatchStart

Running == status = "running"

\* The run ends: os.Exit(1) or a panic in the named call.
Stop(how, why) ==
    /\ status' = how
    /\ cause' = why

Continue == UNCHANGED << status, cause >>

\* The cleaned, expanded rpaths of path, which appendLib registers.
hintsOf(f, path) ==
    LET r == readRpaths(f, path)
    IN  IF r.err THEN {}
        ELSE { Clean(ReplaceAll(r.rpaths[i], OriginToken, Dir(path))) :
                   i \in 1..Len(r.rpaths) }

(***************************************************************************)
(* determineLibsInDirTree                                                  *)
(***************************************************************************)
\* main calls determineLibsInDirTree(appdir, root) and continues at ret.
determineLibsInDirTree(root, ret) ==
    /\ allelfs' = findAllExecutablesAndLibraries(fs, root)
    /\ idx' = 1
    /\ pc' = "det_append"
    /\ returnTo' = ret
    /\ UNCHANGED << patchVars, resolutions, closures, failedPhase, named, parsed,
                    lastReturn, fs, ldLibraryPath, allLibs, libraryLocations, stack,
                    libraryLocationsInAppDir, k, status, cause, hints,
                    lastFind, unresolved, edges, copied, patched >>

\* for _, lib := range allelfs { appendLib(lib) }: one iteration.
DetAppendLib ==
    /\ Running /\ pc = "det_append" /\ idx <= Len(allelfs)
    /\ LET a == appendLib(fs, libraryLocations, allLibs, allelfs[idx])
       IN  /\ libraryLocations' = a.libraryLocations
           /\ allLibs' = a.allLibs
           /\ hints' = hints \cup hintsOf(fs, allelfs[idx])
           /\ IF a.exit THEN Stop("exit", "appendLib") /\ idx' = idx
              ELSE Continue /\ idx' = idx + 1
    /\ UNCHANGED << patchVars, resolutions, closures, failedPhase, named, parsed,
                    lastReturn, fs, ldLibraryPath, pc, returnTo, allelfs, stack,
                    libraryLocationsInAppDir, k, lastFind, unresolved, edges,
                    copied, patched >>

\* The first loop is over; the second one starts.
DetAppendDone ==
    /\ Running /\ pc = "det_append" /\ idx > Len(allelfs)
    /\ pc' = "det_deps"
    /\ idx' = 1
    /\ UNCHANGED << patchVars, resolutions, closures, failedPhase, named, parsed,
                    lastReturn, fs, ldLibraryPath, allLibs, libraryLocations, returnTo,
                    allelfs, stack, libraryLocationsInAppDir, k, status, cause,
                    hints, lastFind, unresolved, edges, copied, patched >>

\* The head of getDeps(binaryOrLib): "error" when the file does not exist,
\* "panic" when elf.Open fails and ImportedLibraries is called on the nil
\* *elf.File, else "ok".
enterGetDeps(f, binaryOrLib) ==
    IF ~Exists(f, binaryOrLib) THEN "error"
    ELSE IF ~IsFile(f, Resolve(binaryOrLib)) \/ f[Resolve(binaryOrLib)].kind # "elf"
         THEN "panic"
         ELSE "ok"

\* failed: a findLibrary call of this getDeps call, or of a call below it,
\* found nothing.
Frame(f, binaryOrLib) ==
    [path |-> binaryOrLib, libs |-> f[Resolve(binaryOrLib)].needed, i |-> 1,
     failed |-> FALSE]

\* parsed after e.ImportedLibraries() has read the list of binaryOrLib.
Counted(binaryOrLib) ==
    LET p == Resolve(binaryOrLib)
    IN  IF p \in DOMAIN parsed THEN [parsed EXCEPT ![p] = @ + 1]
        ELSE (p :> 1) @@ parsed

\* A call of getDeps(binaryOrLib) from the calls in callers.
callGetDeps(callers, binaryOrLib) ==
    LET how == enterGetDeps(fs, binaryOrLib)
    IN  IF how = "panic"
        THEN /\ Stop("panic", "getDeps") /\ stack' = callers
             /\ UNCHANGED << parsed, lastReturn >>
        ELSE IF how = "error"
        THEN /\ Continue /\ stack' = callers
             /\ lastReturn' = [path |-> binaryOrLib, err |-> TRUE, failed |-> FALSE]
             /\ UNCHANGED parsed
        ELSE /\ Continue /\ stack' = Append(callers, Frame(fs, binaryOrLib))
             /\ parsed' = Counted(binaryOrLib)
             /\ UNCHANGED lastReturn

\* for _, elfpath := range allelfs { err = getDeps(elfpath); PrintError }:
\* one iteration calls getDeps.
DetCallGetDeps ==
    /\ Running /\ pc = "det_deps" /\ stack = << >> /\ idx <= Len(allelfs)
    /\ callGetDeps(<< >>, allelfs[idx])
    /\ idx' = idx + 1
    /\ UNCHANGED << patchVars, resolutions, closures, failedPhase, named, fs, ldLibraryPath,
                    allLibs, libraryLocations, pc, returnTo, allelfs,
                    libraryLocationsInAppDir, k, hints, lastFind, unresolved,
                    edges, copied, patched >>

\* determineLibsInDirTree returns to main.
DetReturn ==
    /\ Running /\ pc = "det_deps" /\ stack = << >> /\ idx > Len(allelfs)
    /\ pc' = returnTo
    /\ closures' = Append(closures, allLibs)
    /\ UNCHANGED << patchVars, resolutions, failedPhase, named, parsed, lastReturn, fs,
                    ldLibraryPath, allLibs, libraryLocations, returnTo,
                    allelfs, idx, stack, libraryLocationsInAppDir, k, status,
                    cause, hints, lastFind, unresolved, edges, copied,
                    patched >>

(***************************************************************************)
(* getDeps: one action per iteration of its loop over libs                 *)
(***************************************************************************)
Top == stack[Len(stack)]

InLoop ==
    /\ Running /\ pc = "det_deps" /\ stack # << >>
    /\ Top.i <= Len(Top.libs)

\* s, err := findLibrary(lib)
Lookup == findLibrary(fs, ldLibraryPath, libraryLocations, Top.libs[Top.i])

\* The closure that is running: the first one is 1.
Phase == Len(closures) + 1

\* locations: the list the call searched; afterFailure: an earlier
\* findLibrary call of the same closure had found nothing.
Found(r) ==
    [name |-> Top.libs[Top.i], path |-> r.path, err |-> r.err, msg |-> r.msg,
     hints |-> hints, locations |-> r.libraryLocations,
     afterFailure |-> failedPhase = Phase]

\* A findLibrary call that found the name: what it returned and the list it
\* searched.
Resolution(r) ==
    [name |-> Top.libs[Top.i], path |-> r.path, locations |-> r.libraryLocations]

\* The callers of a call made from the innermost getDeps, which resumes at
\* the next iteration.
Resumed == [stack EXCEPT ![Len(stack)].i = @ + 1]

Returned == SubSeq(stack, 1, Len(stack) - 1)

\* The callers after the innermost call has returned; they remember that a
\* name below them was not found.
ReturnedWith(failed) ==
    IF Returned = << >> \/ ~failed THEN Returned
    ELSE [Returned EXCEPT ![Len(Returned)].failed = TRUE]

\* if err != nil { return err }
GetDepsNotFound ==
    /\ InLoop /\ Lookup.err
    /\ libraryLocations' = Lookup.libraryLocations
    /\ lastFind' = Found(Lookup)
    /\ unresolved' = TRUE
    /\ failedPhase' = Phase
    /\ stack' = ReturnedWith(TRUE)
    /\ lastReturn' = [path |-> Top.path, err |-> TRUE, failed |-> TRUE]
    /\ UNCHANGED << patchVars, resolutions, closures, named, parsed, fs, ldLibraryPath,
                    allLibs, pc, returnTo, allelfs, idx,
                    libraryLocationsInAppDir, k, status, cause, hints, edges,
                    copied, patched >>

\* if helpers.SliceContains(allLibs, s) == true { continue }
GetDepsSkip ==
    /\ InLoop /\ ~Lookup.err /\ SliceContains(allLibs, Lookup.path)
    /\ libraryLocations' = Lookup.libraryLocations
    /\ lastFind' = Found(Lookup)
    /\ edges' = edges \cup { << Top.path, Lookup.path >> }
    /\ stack' = Resumed
    /\ resolutions' = Append(resolutions, Resolution(Lookup))
    /\ UNCHANGED << patchVars, closures, failedPhase, named, parsed,
                    lastReturn, fs, ldLibraryPath, allLibs, pc, returnTo, allelfs, idx,
                    libraryLocationsInAppDir, k, status, cause, hints,
                    unresolved, copied, patched >>

\* else { libPath, err := findLibrary(lib); appendLib(libPath);
\*        err = getDeps(libPath) }
GetDepsRecurse ==
    /\ InLoop /\ ~Lookup.err /\ ~SliceContains(allLibs, Lookup.path)
    /\ Len(stack) < MaxDepth
    /\ LET again == findLibrary(fs, ldLibraryPath, Lookup.libraryLocations,
                                Top.libs[Top.i])
           a == appendLib(fs, again.libraryLocations, allLibs, again.path)
       IN  /\ libraryLocations' = a.libraryLocations
           /\ allLibs' = a.allLibs
           /\ hints' = hints \cup hintsOf(fs, again.path)
           /\ lastFind' = Found(again)
           /\ resolutions' = resolutions \o << Resolution(Lookup), Resolution(again) >>
           /\ edges' = edges \cup { << Top.path, again.path >> }
           /\ IF a.exit
              THEN /\ Stop("exit", "appendLib") /\ stack' = stack
                   /\ UNCHANGED << parsed, lastReturn >>
              ELSE callGetDeps(Resumed, again.path)
    /\ UNCHANGED << patchVars, closures, failedPhase, named, fs, ldLibraryPath,
                    pc, returnTo, allelfs, idx,
                    libraryLocationsInAppDir, k, unresolved, copied, patched >>

\* return nil
GetDepsReturn ==
    /\ Running /\ pc = "det_deps" /\ stack # << >>
    /\ Top.i > Len(Top.libs)
    /\ stack' = ReturnedWith(Top.failed)
    /\ lastReturn' = [path |-> Top.path, err |-> FALSE, failed |-> Top.failed]
    /\ UNCHANGED << patchVars, resolutions, closures, failedPhase, named, parsed, fs,
                    ldLibraryPath, allLibs, libraryLocations, pc, returnTo,
                    allelfs, idx, libraryLocationsInAppDir, k, status, cause,
                    hints, lastFind, unresolved, edges, copied, patched >>


(***************************************************************************)
(* main.  The modelled AppDirs hold no libgdk_pixbuf, libgstreamer-1.0 or  *)
(* libgtk library, so the loops of main and deployGtkDirectory that look   *)
(* for them do nothing; they hold no .ui file, so the main executable is   *)
(* not patched; the other steps between the gconv closure and the copy     *)
(* loop (schemas, fontconfig, AppRun) touch neither allLibs nor            *)
(* libraryLocations nor any ELF file.                                      *)
(***************************************************************************)
\* determineLibsInDirTree(appdir, appdir.Path)
MainAppDir ==
    /\ Running /\ pc = "main_appdir"
    /\ determineLibsInDirTree(AppDirPath, "main_scanner")

\* for _, cand := range gstPluginScannerCandidates { if helpers.Exists(cand) ...
RECURSIVE firstExisting(_, _)
firstExisting(f, cands) ==
    IF cands = << >> THEN [found |-> FALSE, path |-> EmptyStr]
    ELSE IF Exists(f, Head(cands)) THEN [found |-> TRUE, path |-> Head(cands)]
    ELSE firstExisting(f, Tail(cands))

MainScanner ==
    /\ Running /\ pc = "main_scanner"
    /\ firstExisting(fs, GstPluginScannerCandidates).found
    /\ determineLibsInDirTree(firstExisting(fs, GstPluginScannerCandidates).path,
                              "main_ldlinux")

MainNoScanner ==
    /\ Running /\ pc = "main_scanner"
    /\ ~firstExisting(fs, GstPluginScannerCandidates).found
    /\ pc' = "main_ldlinux"
    /\ UNCHANGED << patchVars, resolutions, closures, failedPhase, named, parsed,
                    lastReturn, fs, ldLibraryPath, allLibs, libraryLocations, returnTo,
                    allelfs, idx, stack, libraryLocationsInAppDir, k, status,
                    cause, hints, lastFind, unresolved, edges, copied,
                    patched >>

\* patchelf --print-interpreter, then PatchFile on the interpreter inside
\* the AppDir: os.Stat fails when the AppDir does not hold it.
PatchedInterpreter == AppDirPath \o Interpreter

MainLdLinux ==
    /\ Running /\ pc = "main_ldlinux"
    /\ Exists(fs, PatchedInterpreter)
    /\ pc' = "main_gconv"
    /\ UNCHANGED << patchVars, resolutions, closures, failedPhase, named, parsed,
                    lastReturn, fs, ldLibraryPath, allLibs, libraryLocations, returnTo,
                    allelfs, idx, stack, libraryLocationsInAppDir, k, status,
                    cause, hints, lastFind, unresolved, edges, copied,
                    patched >>

MainLdLinuxFail ==
    /\ Running /\ pc = "main_ldlinux"
    /\ ~Exists(fs, PatchedInterpreter)
    /\ Stop("exit", "PatchFile")
    /\ UNCHANGED << patchVars, resolutions, closures, failedPhase, named, parsed,
                    lastReturn, fs, ldLibraryPath, allLibs, libraryLocations, pc, returnTo,
                    allelfs, idx, stack, libraryLocationsInAppDir, k, hints,
                    lastFind, unresolved, edges, copied, patched >>

\* gconvs, err := findWithPrefixInLibraryLocations("gconv")
Gconvs == findWithPrefixInLibraryLocations(fs, libraryLocations, GconvPrefix)

\* if err == nil { determineLibsInDirTree(appdir, gconvs[0]) }
MainGconv ==
    /\ Running /\ pc = "main_gconv"
    /\ Len(Gconvs.found) > 0
    /\ IF ~Gconvs.err
       THEN determineLibsInDirTree(Gconvs.found[1], "main_locations")
       ELSE /\ pc' = "main_locations"
            /\ UNCHANGED << patchVars, resolutions, closures, failedPhase, named, parsed,
                    lastReturn, fs, ldLibraryPath, allLibs, libraryLocations,
                            returnTo, allelfs, idx, stack,
                            libraryLocationsInAppDir, k, status, cause, hints,
                            lastFind, unresolved, edges, copied, patched >>

\* log.Println("TODO: Handle", gconvs[0]) on an empty slice: index out of
\* range.
MainGconvPanic ==
    /\ Running /\ pc = "main_gconv"
    /\ Len(Gconvs.found) = 0
    /\ Stop("panic", "gconvs[0]")
    /\ UNCHANGED << patchVars, resolutions, closures, failedPhase, named, parsed,
                    lastReturn, fs, ldLibraryPath, allLibs, libraryLocations, pc, returnTo,
                    allelfs, idx, stack, libraryLocationsInAppDir, k, hints,
                    lastFind, unresolved, edges, copied, patched >>

\* for _, lib := range libraryLocations { ... libraryLocationsInAppDir = append
MainLocations ==
    /\ Running /\ pc = "main_locations"
    /\ libraryLocationsInAppDir' = inAppDir(libraryLocations)
    /\ k' = 1
    /\ pc' = "main_copy"
    /\ UNCHANGED << patchVars, resolutions, closures, failedPhase, named, parsed,
                    lastReturn, fs, ldLibraryPath, allLibs, libraryLocations, returnTo,
                    allelfs, idx, stack, status, cause, hints, lastFind,
                    unresolved, edges, copied, patched >>

(***************************************************************************)
(* The copy loop of main: one action per iteration over allLibs            *)
(***************************************************************************)
InCopyLoop == Running /\ pc = "main_copy" /\ k <= Len(allLibs)

\* The condition under which the loop copies and patches lib.
NotInAppDir(f, lib) ==
    /\ ~HasPrefix(lib, AppDirPath)
    /\ ~Exists(f, AppDirPath \o Slash \o lib)

\* helpers.CopyFile(lib, appdir.Path+"/"+lib)
CopyFile(f, lib) == (Resolve(AppDirPath \o Slash \o lib) :> f[Resolve(lib)]) @@ f

\* patchelf --set-rpath rpath target
PatchelfSetRpath(f, rpath, target) ==
    [f EXCEPT ![Resolve(target)].rpath = rpath]

CopySkip ==
    /\ InCopyLoop /\ ~NotInAppDir(fs, allLibs[k])
    /\ k' = k + 1
    /\ UNCHANGED << patchVars, resolutions, closures, failedPhase, named, parsed,
                    lastReturn, fs, ldLibraryPath, allLibs, libraryLocations, pc, returnTo,
                    allelfs, idx, stack, libraryLocationsInAppDir, status,
                    cause, hints, lastFind, unresolved, edges, copied,
                    patched >>

\* CopyFailGoesOn stands for CopyFail in a copy loop that prints the message
\* of a failed copy and goes on with the next library.
CopyFailGoesOn ==
    /\ InCopyLoop /\ NotInAppDir(fs, allLibs[k])
    /\ cause' = "CopyFile"
    /\ named' = AppDirPath \o Slash \o allLibs[k]
    /\ k' = k + 1
    /\ UNCHANGED << patchVars, resolutions, closures, failedPhase, parsed, lastReturn, fs,
                    ldLibraryPath, allLibs, libraryLocations, pc, returnTo,
                    allelfs, idx, stack, libraryLocationsInAppDir, status,
                    hints, lastFind, unresolved, edges, copied, patched >>

\* helpers.CopyFile fails: the message names appdir.Path+"/"+lib, os.Exit(1).
CopyFail ==
    /\ InCopyLoop /\ NotInAppDir(fs, allLibs[k])
    /\ Stop("exit", "CopyFile")
    /\ named' = AppDirPath \o Slash \o allLibs[k]
    /\ UNCHANGED << patchVars, resolutions, closures, failedPhase, parsed, lastReturn, fs,
                    ldLibraryPath, allLibs, libraryLocations, pc, returnTo,
                    allelfs, idx, stack, libraryLocationsInAppDir, k, hints,
                    lastFind, unresolved, edges, copied, patched >>

\* The copy succeeds, the rpath is computed, readRpaths reads the host
\* original and patchelf --set-rpath is run on appdir.Path+lib, whatever the
\* pre-existing rpath starts with.  patchelf fails when appdir.Path+lib is
\* not the file that was copied to appdir.Path+"/"+lib.
CopyAndPatch ==
    /\ InCopyLoop /\ NotInAppDir(fs, allLibs[k])
    /\ LET lib == allLibs[k]
           copy == CopyFile(fs, lib)
           rpath == newRpathStringForElf(lib, libraryLocationsInAppDir)
       IN  /\ copied' = copied \cup { Resolve(AppDirPath \o Slash \o lib) }
           /\ IF readRpaths(copy, lib).err
              THEN /\ Stop("exit", "readRpaths")
                   /\ fs' = copy
                   /\ UNCHANGED << k, patched, named >>
              ELSE IF ~IsFile(copy, Resolve(AppDirPath \o lib))
              THEN /\ Stop("exit", "patchelf --set-rpath")
                   /\ fs' = copy
                   /\ named' = AppDirPath \o lib
                   /\ UNCHANGED << k, patched >>
              ELSE /\ Continue
                   /\ fs' = PatchelfSetRpath(copy, rpath, AppDirPath \o lib)
                   /\ patched' = patched \cup { Resolve(AppDirPath \o lib) }
                   /\ k' = k + 1
                   /\ UNCHANGED named
    /\ UNCHANGED << patchVars, resolutions, closures, failedPhase, parsed, lastReturn,
                    ldLibraryPath, allLibs, libraryLocations, pc, returnTo,
                    allelfs, idx, stack, libraryLocationsInAppDir, hints,
                    lastFind, unresolved, edges >>

\* The copy succeeds and patchelf --set-rpath fails: the message names
\* appdir.Path+lib, os.Exit(1).
PatchFail ==
    /\ InCopyLoop /\ NotInAppDir(fs, allLibs[k])
    /\ ~readRpaths(fs, allLibs[k]).err
    /\ fs' = CopyFile(fs, allLibs[k])
    /\ copied' = copied \cup { Resolve(AppDirPath \o Slash \o allLibs[k]) }
    /\ Stop("exit", "patchelf --set-rpath")
    /\ named' = AppDirPath \o allLibs[k]
    /\ UNCHANGED << patchVars, resolutions, closures, failedPhase, parsed, lastReturn,
                    ldLibraryPath, allLibs, libraryLocations, pc, returnTo,
                    allelfs, idx, stack, libraryLocationsInAppDir, k, hints,
                    lastFind, unresolved, edges, patched >>

\* Mutant of CopyDone: the gconv closure is run after the copy loop.
CopyDoneThenGconv ==
    /\ Running /\ pc = "main_copy" /\ k > Len(allLibs)
    /\ pc' = "main_gconv"
    /\ UNCHANGED << patchVars, resolutions, closures, failedPhase, named, parsed,
                    lastReturn, fs, ldLibraryPath, allLibs, libraryLocations, returnTo,
                    allelfs, idx, stack, libraryLocationsInAppDir, k, status,
                    cause, hints, lastFind, unresolved, edges, copied,
                    patched >>

\* main returns.
CopyDone ==
    /\ Running /\ pc = "main_copy" /\ k > Len(allLibs)
    /\ Stop("done", "none")
    /\ UNCHANGED << patchVars, resolutions, closures, failedPhase, named, parsed,
                    lastReturn, fs, ldLibraryPath, allLibs, libraryLocations, pc, returnTo,
                    allelfs, idx, stack, libraryLocationsInAppDir, k, hints,
                    lastFind, unresolved, edges, copied, patched >>

Next ==
    \/ MainAppDir
    \/ DetAppendLib
    \/ DetAppendDone
    \/ DetCallGetDeps
    \/ DetReturn
    \/ GetDepsNotFound
    \/ GetDepsSkip
    \/ GetDepsRecurse
    \/ GetDepsReturn
    \/ MainScanner
    \/ MainNoScanner
    \/ MainLdLinux
    \/ MainLdLinuxFail
    \/ MainGconv
    \/ MainGconvPanic
    \/ MainLocations
    \/ CopySkip
    \/ CopyFail
    \/ CopyAndPatch
    \/ PatchFail
    \/ CopyDone

Spec == Init /\ [][Next]_vars

(***************************************************************************)
(* The closure of the AppDir computed twice: determineLibsInDirTree(appdir, *)
(* appdir.Path) is called again when its first call has returned, on the   *)
(* same file system and with allLibs and libraryLocations as the first     *)
(* call left them.                                                         *)
(***************************************************************************)
ClosureAgain ==
    /\ Running /\ pc = "main_scanner" /\ Len(closures) = 1
    /\ determineLibsInDirTree(AppDirPath, "closed_twice")

TwiceNext ==
    \/ MainAppDir
    \/ DetAppendLib
    \/ DetAppendDone
    \/ DetCallGetDeps
    \/ DetReturn
    \/ GetDepsNotFound
    \/ GetDepsSkip
    \/ GetDepsRecurse
    \/ GetDepsReturn
    \/ ClosureAgain

TwiceSpec == Init /\ [][TwiceNext]_vars

(***************************************************************************)
(* PatchFile(path, search, replace), one action per statement.  Its inputs *)
(* are the calls of main (search "/usr", replace "/xxx" or "././") on      *)
(* files that hold "/usr", and every short file and pattern over two       *)
(* bytes.  The operating system may fail ioutil.ReadFile, ioutil.WriteFile *)
(* and os.Rename; a failed write may leave any prefix of the data behind.  *)
(***************************************************************************)
Bytes == { "a", "b" }

StringsUpTo(n) == UNION { [1..m -> Bytes] : m \in 0..n }

\* "/usr/lib"
UsrLib ==
    << "/", "u", "s", "r", "/", "l", "i", "b" >>
\* "/usrusr"
UsrUsr ==
    << "/", "u", "s", "r", "u", "s", "r" >>
\* "f"
PatchedFile ==
    << "f" >>

\* The contents PatchFile finds in the file.
ContentChoices == StringsUpTo(MaxContentLen) \cup { UsrLib, UsrUsr }

\* The path argument: PatchFile trims it.
PathChoices == { PatchedFile, PatchedFile \o << "\n" >> }

\* The search and replace arguments.
PatternChoices ==
    { [search |-> x, replace |-> y] :
          x \in StringsUpTo(MaxPatternLen) \ { EmptyStr },
          y \in StringsUpTo(MaxPatternLen) }
    \cup { [search |-> Usr, replace |-> Xxx],
           [search |-> Usr, replace |-> DotSlashDotSlash] }

PatchInit ==
    /\ fs = EmptyFs
    /\ ldLibraryPath = EmptyStr
    /\ RunStart
    /\ \/ disk = NoFiles
       \/ \E content \in ContentChoices : disk = (PatchedFile :> content)
    /\ \E p \in PathChoices, pattern \in PatternChoices :
          patchArgs = [path |-> p, search |-> pattern.search,
                       replace |-> pattern.replace]
    /\ PatchStart

\* InPlaceName stands for PatchedName in a PatchFile that writes into the
\* file itself.
InPlaceName(p) == p

\* path+".patched"
PatchedName(p) == p \o PatchedSuffix

\* PatchFile returns err: "nil" or "err".
PatchReturn(err) ==
    /\ patchPc' = "returned"
    /\ patchErr' = err

\* main calls PatchFile, again with the same arguments.
\* path = strings.TrimSpace(path)
PatchFileCall ==
    /\ patchPc \in {"idle", "returned"} /\ calls < MaxCalls
    /\ calls' = calls + 1
    /\ patchPath' = TrimSpace(patchArgs.path)
    /\ before' = disk
    /\ input' = EmptyStr
    /\ output' = EmptyStr
    /\ patchPc' = "stat"
    /\ patchErr' = "none"
    /\ UNCHANGED << runVars, disk, patchArgs, applied >>

\* fi, err := os.Stat(path)
PatchStat ==
    /\ patchPc = "stat" /\ patchPath \in DOMAIN disk
    /\ patchPc' = "read"
    /\ UNCHANGED << runVars, disk, patchArgs, patchPath, input, output,
                    patchErr, calls, before, applied >>

\* if err != nil { return err }
PatchStatFail ==
    /\ patchPc = "stat" /\ patchPath \notin DOMAIN disk
    /\ PatchReturn("err")
    /\ UNCHANGED << runVars, disk, patchArgs, patchPath, input, output, calls,
                    before, applied >>

\* input, err := ioutil.ReadFile(path)
\* output := bytes.Replace(input, []byte(search), []byte(replace), -1)
PatchRead ==
    /\ patchPc = "read"
    /\ input' = disk[patchPath]
    /\ output' = ReplaceAll(disk[patchPath], patchArgs.search, patchArgs.replace)
    /\ patchPc' = "write"
    /\ UNCHANGED << runVars, disk, patchArgs, patchPath, patchErr, calls,
                    before, applied >>

\* if err != nil { return err }
PatchReadFail ==
    /\ patchPc = "read"
    /\ PatchReturn("err")
    /\ UNCHANGED << runVars, disk, patchArgs, patchPath, input, output, calls,
                    before, applied >>

\* ioutil.WriteFile(path+".patched", output, fi.Mode().Perm())
PatchWrite ==
    /\ patchPc = "write"
    /\ disk' = (PatchedName(patchPath) :> output) @@ disk
    /\ patchPc' = "rename"
    /\ UNCHANGED << runVars, patchArgs, patchPath, input, output, patchErr,
                    calls, before, applied >>

\* if err = ioutil.WriteFile(...); err != nil { return err }: the file could
\* not be created, or the write stopped after n bytes.
PatchWriteFail ==
    /\ patchPc = "write"
    /\ \/ disk' = disk
       \/ \E n \in 0..Len(output) :
             disk' = (PatchedName(patchPath) :> SubSeq(output, 1, n)) @@ disk
    /\ PatchReturn("err")
    /\ UNCHANGED << runVars, patchArgs, patchPath, input, output, calls,
                    before, applied >>

\* disk after os.Rename(from, to) has succeeded.
Renamed(d, from, to) ==
    [q \in (DOMAIN d \ {from}) \cup {to} |-> IF q = to THEN d[from] ELSE d[q]]

\* os.Rename(path+".patched", path); return nil
PatchRename ==
    /\ patchPc = "rename"
    /\ disk' = Renamed(disk, PatchedName(patchPath), patchPath)
    /\ applied' = Append(applied, disk[PatchedName(patchPath)])
    /\ PatchReturn("nil")
    /\ UNCHANGED << runVars, patchArgs, patchPath, input, output, calls,
                    before >>

\* os.Rename fails; its error is dropped and PatchFile returns nil.
PatchRenameFail ==
    /\ patchPc = "rename"
    /\ PatchReturn("nil")
    /\ UNCHANGED << runVars, disk, patchArgs, patchPath, input, output, calls,
                    before, applied >>

PatchNext ==
    \/ PatchFileCall
    \/ PatchStat
    \/ PatchStatFail
    \/ PatchRead
    \/ PatchReadFail
    \/ PatchWrite
    \/ PatchWriteFail
    \/ PatchRename
    \/ PatchRenameFail

PatchSpec == PatchInit /\ [][PatchNext]_vars

TypeOK ==
    /\ status \in {"running", "done", "exit", "panic"}
    /\ pc \in {"main_appdir", "det_append", "det_deps", "main_scanner",
               "main_ldlinux", "main_gconv", "main_locations", "main_copy",
               "closed_twice"}
    /\ idx \in 1..(Len(allelfs) + 1)
    /\ k \in 1..(Len(allLibs) + 1)
    /\ Len(stack) <= MaxDepth


(***************************************************************************)
(* Properties                                                              *)
(***************************************************************************)
Range(seq) == { seq[i] : i \in 1..Len(seq) }

NoDuplicates(seq) == \A i, j \in 1..Len(seq) : seq[i] = seq[j] => i = j

IsPrefix(a, b) == Len(a) <= Len(b) /\ SubSeq(b, 1, Len(a)) = a

\* Position of the first x in seq, 0 when there is none.
PositionIn(seq, x) ==
    IF SliceContains(seq, x)
    THEN CHOOSE i \in 1..Len(seq) : seq[i] = x /\ \A j \in 1..(i - 1) : seq[j] # x
    ELSE 0

InClosure == pc \in {"det_append", "det_deps"}

\* Where the copy loop puts, or an AppDir file already is, in the AppDir.
BundlePath(p) == IF HasPrefix(p, AppDirPath) THEN p ELSE Clean(AppDirPath \o p)

\* The entries of the search path installed in file p.
RpathEntries(f, p) ==
    IF f[p].rpath = EmptyStr THEN {} ELSE Range(Split(f[p].rpath, Colon))

\* The pre-existing search path of lib starts with the marker "$".
StartsWithDollar(f, lib) ==
    /\ Len(readRpaths(f, lib).rpaths) > 0
    /\ HasPrefix(readRpaths(f, lib).rpaths[1], Dollar)

\* C1: a copied binary whose pre-existing search path, read from the host
\* original, starts with "$" is not patched: its copy keeps that search path.
C1_NoOverwriteOfRelocationHints ==
    \A lib \in Range(allLibs) :
        (BundlePath(lib) \in copied /\ StartsWithDollar(fs, lib))
            => /\ BundlePath(lib) \notin patched
               /\ fs[BundlePath(lib)].rpath = fs[lib].rpath

\* The work a closure computation has left, as a tuple of naturals ordered
\* lexicographically: the files not yet in allLibs, the loops of
\* determineLibsInDirTree still to run, the files its current loop still
\* has to visit, and the iterations and returns the running getDeps calls
\* still owe.
RECURSIVE Pending(_)
Pending(frames) ==
    IF frames = << >> THEN 0
    ELSE (Len(Head(frames).libs) + 1 - Head(frames).i) + 1 + Pending(Tail(frames))

ClosureMeasure ==
    << Cardinality(DOMAIN fs) - Len(allLibs),
       IF pc = "det_append" THEN 1 ELSE 0,
       Len(allelfs) + 1 - idx,
       Pending(stack) >>

RECURSIVE LexLess(_, _)
LexLess(a, b) ==
    IF a = << >> THEN FALSE
    ELSE Head(a) < Head(b) \/ (Head(a) = Head(b) /\ LexLess(Tail(a), Tail(b)))

\* getDeps has to recurse and the model's recursion depth is used up.
DepthExhausted ==
    /\ InLoop /\ ~Lookup.err /\ ~SliceContains(allLibs, Lookup.path)
    /\ Len(stack) >= MaxDepth

\* C2: closure computation terminates, also on the cyclic pair liba.so,
\* libb.so: no recursion outgrows the nesting the files allow, and every
\* step of determineLibsInDirTree and getDeps either ends the closure or the
\* run, or strictly lowers ClosureMeasure, whose parts stay naturals.
C2_ClosureTerminates ==
    /\ [](~DepthExhausted)
    /\ [][(InClosure /\ Running) =>
            \/ ~InClosure' \/ ~Running'
            \/ /\ \A i \in 1..Len(ClosureMeasure') : ClosureMeasure'[i] \in Nat
               /\ LexLess(ClosureMeasure', ClosureMeasure)]_vars

\* C2 witness: a closure over the cycle has returned; the edge that closes
\* the cycle was met and skipped.
C2_CycleClosed ==
    /\ ~InClosure
    /\ << HostLibA, HostLibB >> \in edges
    /\ << HostLibB, HostLibA >> \in edges
    /\ SliceContains(allLibs, HostLibA) /\ SliceContains(allLibs, HostLibB)

\* C3: allLibs never holds a path twice and never loses a member.
C3_AllLibsIsAGrowingSet ==
    [][/\ NoDuplicates(allLibs')
       /\ Range(allLibs) \subseteq Range(allLibs')]_vars

\* C3 witness: the gconv closure enumerates a file of the AppDir that the
\* first closure had already put into allLibs, and appendLib ran on it again.
C3_Rediscovered ==
    /\ pc = "det_deps" /\ returnTo = "main_locations"
    /\ allelfs = << BundledGconvModule >>
    /\ PositionIn(allLibs, BundledGconvModule) < Len(allLibs)

\* C4: once a declared name failed to resolve, the run never copies or
\* patches: it does not reach the copy loop.
C4_UnresolvedIsFatal ==
    unresolved => (pc # "main_copy" /\ copied = {} /\ patched = {})

\* C5: a file that is enumerated by its name and is not ELF does not end the
\* run, neither by os.Exit in appendLib nor by a panic in getDeps.
C5_ParseErrorDoesNotAbort ==
    \A i \in 1..Len(allelfs) :
        fs[allelfs[i]].kind = "text"
            => ~(status \in {"exit", "panic"} /\ cause \in {"appendLib", "getDeps"})

\* The libraries getDeps resolved, directly or transitively, for binary b.
RECURSIVE Reach(_)
Reach(S) ==
    LET more == S \cup { e[2] : e \in { d \in edges : d[1] \in S } }
    IN  IF more = S THEN S ELSE Reach(more)

TransitiveDeps(b) == Reach({ e[2] : e \in { d \in edges : d[1] = b } })

\* Entry e of the search path of the file at path b names directory dir.
PointsTo(b, e, dir) ==
    /\ HasPrefix(e, OriginPrefix)
    /\ Clean(Dir(b) \o Slash \o SubSeq(e, Len(OriginPrefix) + 1, Len(e))) = dir

\* C6: at Done every binary of the bundle, copied or already there, has for
\* every bundled directory that holds one of its transitive dependencies an
\* $ORIGIN entry that names that directory.
C6_RpathCompleteness ==
    status = "done" =>
        \A b \in Range(allLibs) : \A d \in TransitiveDeps(b) :
            (IsFile(fs, BundlePath(b)) /\ IsFile(fs, BundlePath(d)))
                => \E e \in RpathEntries(fs, BundlePath(b)) :
                       PointsTo(BundlePath(b), e, Dir(BundlePath(d)))

\* C7: a name that a registered hint directory and a default directory both
\* hold resolves to the copy in the hint directory.
C7_HintsBeforeDefaults ==
    (lastFind.name # EmptyStr /\ copied = {}) =>
        \A d1 \in lastFind.hints : \A d2 \in Range(DefaultLocs) :
            (/\ IsFile(fs, d1 \o Slash \o lastFind.name)
             /\ IsFile(fs, d2 \o Slash \o lastFind.name))
                => Dir(lastFind.path) \in lastFind.hints

\* The directories LD_LIBRARY_PATH supplies.
EnvDirs == { Clean(d) : d \in Range(nonEmpty(Split(ldLibraryPath, Colon))) }

\* C8: in the libraryLocations findLibrary searched, every LD_LIBRARY_PATH
\* directory that is neither a hint nor a default stands before every
\* default directory.
C8_EnvBeforeDefaults ==
    lastFind.name # EmptyStr =>
        \A e \in EnvDirs \ (hints \cup Range(DefaultLocs)) :
            \A d \in Range(DefaultLocs) :
                PositionIn(libraryLocations, e) < PositionIn(libraryLocations, d)

\* C9: every step leaves the old libraryLocations as a prefix of the new.
C9_LocationsAppendOnly ==
    [][IsPrefix(libraryLocations, libraryLocations')]_vars

\* C9 witness: libraryLocations grew from all its sources: directories of
\* files, the defaults, LD_LIBRARY_PATH and a hint found during the closure.
C9_GrownFromAllSources ==
    /\ SliceContains(libraryLocations, Dir(MainExecutable))
    /\ PositionIn(libraryLocations, Loc_usr_lib32) < PositionIn(libraryLocations, EnvDir)
    /\ PositionIn(libraryLocations, EnvDir) < PositionIn(libraryLocations, VendorDir)

\* C10: files are copied and rpaths installed only in the copy loop; no
\* closure runs once the loop has started, allLibs and libraryLocations stay
\* as they are, and each rpath installed is the one computed from that
\* final libraryLocations.
C10_PhaseOrdering ==
    [][/\ (copied' # copied \/ patched' # patched \/ fs' # fs)
              => (pc = "main_copy" /\ stack = << >>)
       /\ pc = "main_copy"
              => /\ pc' = "main_copy"
                 /\ libraryLocations' = libraryLocations
                 /\ allLibs' = allLibs
                 /\ libraryLocationsInAppDir = inAppDir(libraryLocations)
       /\ \A t \in patched' \ patched :
              fs'[t].rpath =
                  newRpathStringForElf(allLibs[k], inAppDir(libraryLocations'))]_vars

\* C10 witness: the run is done after three closures (AppDir, scanner,
\* gconv) and has copied and patched libraries.
C10_CopiedAfterAllClosures ==
    /\ status = "done"
    /\ patched # {} /\ copied # {}
    /\ SliceContains(allLibs, ScannerClearLinux)
    /\ SliceContains(allLibs, HostGconvModule)

\* The file at p in d: whether it exists, and what it holds.
FileAt(d, p) == IF p \in DOMAIN d THEN << TRUE, d[p] >> ELSE << FALSE, EmptyStr >>

\* C11: Atomic patch.  When PatchFile returns an error (os.Stat,
\* ioutil.ReadFile or ioutil.WriteFile of path+".patched" failed, all of them
\* before the rename) the file at path is what it was when the call started;
\* and at every point of a call the file at path holds either what it held
\* when the call started or the complete output, never a part of it.
C11_AtomicPatch ==
    patchPc # "idle" =>
        /\ patchErr = "err" => FileAt(disk, patchPath) = FileAt(before, patchPath)
        /\ \/ FileAt(disk, patchPath) = FileAt(before, patchPath)
           \/ /\ patchPc \in {"rename", "returned"}
              /\ FileAt(disk, patchPath) = << TRUE, output >>

\* A write of path+".patched" failed half way: PatchFile returned the error,
\* the sibling holds a part of an output that differs from the input.
C11_WriteFailedHalfWay ==
    /\ patchPc = "returned" /\ patchErr = "err"
    /\ output # input
    /\ PatchedName(patchPath) \in DOMAIN disk
    /\ Len(disk[PatchedName(patchPath)]) \in 1..(Len(output) - 1)

\* C15: PatchFile is idempotent on retry.  The file after the second call
\* that went through (read, write and rename succeeded) with the same
\* arguments is the file after the first.
C15_PatchFileIdempotent ==
    Len(applied) >= 2 => applied[2] = applied[1]

\* The positions of the directories of locations that hold a file called
\* name.
Holding(locations, name) ==
    { i \in 1..Len(locations) :
          Resolve(locations[i] \o Slash \o name) \in DOMAIN fs }

\* C12: findLibrary searches the live list of library locations front to
\* back.  While a closure runs, the latest findLibrary call of getDeps
\* searched a list that is still the front of libraryLocations; when some
\* directory of that list holds a file of the name, the call returned the
\* path in the first such directory and no error; when none does, it
\* returned an error whose message carries the name, and the empty path.
C12_FirstMatchWins ==
    (InClosure /\ lastFind # NoFind) =>
        LET at == Holding(lastFind.locations, lastFind.name)
        IN  /\ IsPrefix(lastFind.locations, libraryLocations)
            /\ at # {} =>
                  /\ ~lastFind.err
                  /\ \E i \in at :
                        /\ \A j \in at : i <= j
                        /\ lastFind.path
                             = lastFind.locations[i] \o Slash \o lastFind.name
            /\ at = {} =>
                  /\ lastFind.err
                  /\ lastFind.path = EmptyStr
                  /\ StrContains(lastFind.msg, lastFind.name)

\* findLibrary was called for a name that two of the searched directories
\* hold, and returned the path in the first of them, which is not a
\* directory findLibrary registers itself.
C12_TwoDirectoriesHoldIt ==
    /\ InClosure /\ lastFind # NoFind /\ ~lastFind.err
    /\ Cardinality(Holding(lastFind.locations, lastFind.name)) >= 2
    /\ ~SliceContains(DefaultLocs, Dir(lastFind.path))

\* The file p names lies in the directory tree of root.
Under(p, root) == Resolve(p) = root \/ HasPrefix(Resolve(p), root \o Slash)

\* C13: After a run that reaches the end of main, every path of allLibs that
\* does not lie in the directory tree of the AppDir has a copy in the AppDir
\* at AppDir + path, with the DT_NEEDED list of the original.
C13_EveryHostLibraryIsCopied ==
    status = "done" =>
        \A i \in 1..Len(allLibs) :
            ~Under(allLibs[i], AppDirPath) =>
                /\ Resolve(AppDirPath \o allLibs[i]) \in DOMAIN fs
                /\ fs[Resolve(AppDirPath \o allLibs[i])].needed
                     = fs[Resolve(allLibs[i])].needed

\* C14: Idempotent closure membership.  When the closure of the same root
\* has been computed a second time on the unchanged file system, allLibs has
\* the members it had after the first time, each of them once.
C14_ClosureIsIdempotent ==
    Len(closures) >= 2 =>
        /\ Range(closures[2]) = Range(closures[1])
        /\ NoDuplicates(closures[2])

\* The places in the AppDir of the first n libraries of allLibs.
Targets(n) == { Resolve(AppDirPath \o Slash \o allLibs[i]) : i \in 1..n }

\* C16: When helpers.CopyFile or patchelf --set-rpath has failed for the
\* library the copy loop stands at, the run has ended with os.Exit(1), the
\* message printed names that library, and nothing was copied or patched
\* for a library behind it in allLibs.
C16_MaterializeFailureAborts ==
    cause \in {"CopyFile", "patchelf --set-rpath"} =>
        /\ status = "exit"
        /\ k <= Len(allLibs)
        /\ StrContains(named, allLibs[k])
        /\ HasPrefix(named, AppDirPath)
        /\ copied \subseteq Targets(IF cause = "CopyFile" THEN k - 1 ELSE k)
        /\ patched \subseteq Targets(k - 1)

\* A copy or a patch failed after a library had been copied and patched, and
\* a library behind the failed one is still to be copied.
C16_FailedInTheMiddle ==
    /\ cause \in {"CopyFile", "patchelf --set-rpath"}
    /\ patched # {}
    /\ \E j \in (k + 1)..Len(allLibs) : NotInAppDir(fs, allLibs[j])

\* C17: Re-visiting short-circuits.  Over all closures of a run, getDeps
\* reads the imported libraries of a file at most once.
C17_ParsedAtMostOnce ==
    \A p \in DOMAIN parsed : parsed[p] <= 1

\* The files of f outside the directory tree of the AppDir.
Outside(f) == { p \in DOMAIN f : ~Under(p, AppDirPath) }

\* C18: Materialization never writes to the host.  Every file the copy loop
\* creates and every file patchelf --set-rpath rewrites lies in the directory
\* tree of the AppDir, and no step of a run creates, removes or changes a
\* file outside it.
C18_HostIsLeftAlone ==
    /\ [](\A p \in copied \cup patched : Under(p, AppDirPath))
    /\ [][/\ Outside(fs') = Outside(fs)
          /\ \A p \in Outside(fs) : fs'[p] = fs[p]]_vars

\* C19: Error propagation in the closure.  A getDeps call below which some
\* findLibrary call found nothing (in the call itself or in a call it made,
\* directly or not) has returned an error; and no findLibrary call of a
\* closure resolves a name after a findLibrary call of that closure has
\* found nothing.
C19_ErrorsPropagate ==
    /\ lastReturn.failed => lastReturn.err
    /\ ~(lastFind.afterFailure /\ ~lastFind.err)

\* The place of directory d in the AppDir: d itself when it lies in the
\* directory tree of the AppDir, else AppDir + d.
Image(d) == IF Under(d, AppDirPath) THEN d ELSE AppDirPath \o d

\* One entry for each directory of locations, in their order: "$ORIGIN/"
\* and the way from the directory of binary to the directory's place in the
\* AppDir, joined with ":".
ExpectedRpath(binary, locations) ==
    Join([i \in 1..Len(locations) |->
              OriginPrefix \o Rel(Dir(binary), Image(locations[i])).path],
         Colon)

\* C20: The rpath written into a newly copied binary has one entry for each
\* directory of libraryLocations, in the same order; entry i is "$ORIGIN/"
\* followed by the path, relative to the directory of the binary in the
\* AppDir, of the place of directory i in the AppDir; the entries are joined
\* with ":".
C20_RpathListsEveryLocation ==
    pc = "main_copy" =>
        \A b \in patched : fs[b].rpath = ExpectedRpath(b, libraryLocations)

\* The search hints file p carries in f, each with $ORIGIN replaced by the
\* directory of p, as the directories they name.
SearchHints(f, p) ==
    IF f[Resolve(p)].rpath = EmptyStr THEN {}
    ELSE { Clean(ReplaceAll(h, OriginToken, Dir(p))) :
               h \in Range(Split(f[Resolve(p)].rpath, Colon)) }

\* C21: In every reachable state, for every path of allLibs, the directory
\* that holds it and every search hint of that file, with $ORIGIN replaced
\* by the file's own directory, is a member of libraryLocations.
C21_DirectoryAndHintsRegistered ==
    \A p \in Range(allLibs) :
        /\ Clean(Dir(p)) \in Range(libraryLocations)
        /\ SearchHints(fs, p) \subseteq Range(libraryLocations)

\* C21 witness: the run is over; allLibs holds a file of the AppDir whose
\* hint starts with $ORIGIN, and a host library that getDeps resolved and
\* whose hint names a further directory.
C21_HintsOfBothKinds ==
    /\ status = "done"
    /\ MainExecutable \in Range(allLibs)
    /\ fs[MainExecutable].rpath = RpathOriginLib
    /\ HostLibY \in Range(allLibs)
    /\ VendorDir \in Range(libraryLocations)

\* C22: Once findLibrary has returned a path for a name, every later
\* findLibrary call of the run for that name returns the same path, whatever
\* directories were registered in between; and as long as no file has been
\* written, a call made now would return it too.
C22_ResolutionIsStable ==
    /\ \A i, j \in 1..Len(resolutions) :
           (i < j /\ resolutions[i].name = resolutions[j].name)
               => resolutions[j].path = resolutions[i].path
    /\ copied = {} =>
           \A i \in 1..Len(resolutions) :
               LET now == findLibrary(fs, ldLibraryPath, libraryLocations,
                                      resolutions[i].name)
               IN  ~now.err /\ now.path = resolutions[i].path

\* C22 witness: a name was found twice, and the second call searched a
\* directory that was registered after the first call and holds a file of
\* that name.
C22_FoundAgainAfterRegistering ==
    \E i, j \in 1..Len(resolutions) :
        /\ i < j
        /\ resolutions[i].name = resolutions[j].name
        /\ \E d \in Range(resolutions[j].locations)
                      \ Range(resolutions[i].locations) :
               Exists(fs, d \o Slash \o resolutions[j].name)

\* The run was ended by a copy or by patchelf that failed.
ToolFailed ==
    cause \in {"appendLib", "readRpaths", "CopyFile", "patchelf --set-rpath"}

\* Library lib of the host has its copy in the AppDir, with a new rpath.
CopiedAndPatched(lib) ==
    /\ IsFile(fs, Resolve(AppDirPath \o Slash \o lib))
    /\ Resolve(AppDirPath \o lib) \in patched

\* C23: A run in which every needed library was found and no copy and no
\* patchelf call failed does not end before main returns, and when main has
\* returned, every member of allLibs outside the AppDir is copied and
\* patched; this also when the AppDir does not hold the interpreter of the
\* main executable at the start.  (Crashes of the run are left aside.)
C23_RunsToDone ==
    (status \notin {"running", "panic"} /\ ~unresolved /\ ~ToolFailed)
        => /\ status = "done"
           /\ \A lib \in Range(allLibs) :
                  ~Under(Resolve(lib), AppDirPath) => CopiedAndPatched(lib)

\* C24: PatchFile reports success only when the patch took effect.  When
\* PatchFile has returned nil, the file at path holds what it held when the
\* call started with every occurrence of search replaced by replace; and
\* PatchFile has not returned nil after a rename that failed, which leaves
\* path+".patched" behind.
C24_NilMeansPatched ==
    (patchPc = "returned" /\ patchErr = "nil") =>
        /\ FileAt(disk, patchPath) =
               << TRUE, ReplaceAll(before[patchPath], patchArgs.search,
                                   patchArgs.replace) >>
        /\ PatchedName(patchPath) \notin DOMAIN disk

\* No directory of locations holds an entry whose name starts with "gconv".
NoGconvIn(f, locations) ==
    \A i \in 1..Len(locations) :
        FilesWithPrefixInDirectory(f, locations[i], GconvPrefix) = << >>

\* C25: Missing gconv is tolerated.  When main stands at the gconv step and
\* no directory of libraryLocations holds an entry with the prefix "gconv",
\* the run has not ended there: it skips the gconv closure and goes on.
C25_MissingGconvIsTolerated ==
    (pc = "main_gconv" /\ NoGconvIn(fs, libraryLocations))
        => status = "running"

=============================================================================
